---- MODULE Spec2Model ----
(***************************************************************************)
(* A model of the CraftHub content catalogue: the public browsing view     *)
(* (App), the administration view (AdminPanel) and the server-side         *)
(* download endpoint, all working on one remote store.                     *)
(*                                                                         *)
(* Every asynchronous handler is split at its `await`s: the action that    *)
(* starts it runs the code up to the first remote call and leaves a record *)
(* in `pending`; a later action applies the remote call to the store and   *)
(* runs the continuation up to the next `await`.  A pending record holds   *)
(* what the handler's closure captured when it was invoked.                *)
(***************************************************************************)
EXTENDS Integers, Sequences, FiniteSets

VARIABLES
    \* ---- remote backend ----
    contentTable,     \* rows of table `content`, in creation order
    commentTable,     \* rows of table `comments`, in creation order
    authSession,      \* per browser session: does an auth session exist
    nextCommentId,    \* the id the backend gives the next comment row
    \* ---- App state, one copy per browser session ----
    activeCategory, selectedContent, isAdmin, showAdminPanel,
    featuredContent, error, filteredContent, comments,
    commentAuthor, commentText,
    effectPending,    \* the category-filter effect is scheduled to run
    \* ---- AdminPanel state ----
    content, adminError, deletingId, showDeleteConfirm,
    formData, isEditing, file, uploading,
    \* ---- remote state that only the AdminPanel writes ----
    storage,          \* objects of bucket `content-files`
    nextContentId,    \* how many rows of `content` were inserted so far
    \* ---- handlers suspended at an await ----
    pending,
    \* ---- what the last step was and what it did to the outside ----
    ev,               \* the handler step taken last
    net,              \* remote calls issued by the last step
    ui                \* alerts, saves and windows opened by the last step

remoteVars == <<contentTable, commentTable, authSession, nextCommentId>>
listVars   == <<activeCategory, featuredContent, error, filteredContent, effectPending>>
authVars   == <<isAdmin, showAdminPanel>>
commentVars == <<comments, commentAuthor, commentText>>
appVars    == <<listVars, authVars, commentVars, selectedContent>>
formVars   == <<formData, isEditing, file, uploading>>
storeVars  == <<storage, nextContentId>>
adminVars  == <<content, adminError, deletingId, showDeleteConfirm, formVars, storeVars>>
obsVars    == <<ev, net, ui>>
vars       == <<remoteVars, appVars, adminVars, pending, obsVars>>

----------------------------------------------------------------------------
(* Bounds of the model *)

MaxDownloads == 2    \* no download is started from a count at or above this
MaxRatings   == 3    \* no rating is started from a ratings_count at or above this
MaxInFlight  == 1    \* handlers of one session suspended at an await at the same time
MaxRequests  == 2    \* requests the download endpoint is serving at the same time
MaxComments  == 2    \* comment rows ever inserted
MaxCreates   == 1    \* content rows ever inserted
MaxUploads   == 1    \* objects ever stored in the bucket

----------------------------------------------------------------------------
(* Values *)

Sessions   == {"s1", "s2"}
Ids        == {"a", "b"}
Types      == {"Resource Pack", "Mod", "Client"}
Categories == {"all", "resource-packs", "mods", "clients"}
Outcomes   == {"ok", "error", "throw"}

\* `ratings_count?: number` may be absent
NoCount == -1

\* ContentCard; rating is held in tenths (45 is 4.5); file_url "" is no file.
\* A row that was there before the model starts has a title, an author and
\* a size that were typed in; description, version and image are carried like
\* the title and left out.
ContentCard(id, type, downloads, rating, ratings_count, file_url) ==
    [id |-> id, title |-> "Item", type |-> type, downloads |-> downloads, rating |-> rating,
     ratings_count |-> ratings_count, author |-> "Author", file_size |-> "1MB",
     file_url |-> file_url]

\* selectedContent = null
NoContent == ContentCard("", "", 0, 0, NoCount, "")

Comment(id, content_id, author, text) ==
    [id |-> id, content_id |-> content_id, author |-> author, text |-> text]

\* what is typed into a form field, a sequence of characters: nothing, blanks,
\* a letter, a letter with blanks before, after and around it
Strs == {<<>>, <<" ">>, <<" ", " ">>, <<"x">>, <<" ", "x">>, <<"x", " ">>, <<" ", "x", " ">>}

NoEv == [name |-> "init", sess |-> "", id |-> "", n |-> 0, res |-> ""]
\* a handler step: its name, session, the content id and number it is about,
\* and for a continuation the outcome of the call it resumes from
Ev(name, s, id, n, res) == [name |-> name, sess |-> s, id |-> id, n |-> n, res |-> res]

\* File of the file input: name as a sequence of characters, declared MIME
\* type, size in bytes
File(name, type, size) == [name |-> name, type |-> type, size |-> size]

\* file = null
NoAttachment == File(<<>>, "", 0)

\* ContentFormData; file_url "" is the key left out
ContentFormData(title, type, file_size, file_url) ==
    [title |-> title, type |-> type, file_size |-> file_size, file_url |-> file_url]

\* the form's useState default (lines 728-735)
EmptyForm == ContentFormData("", "Resource Pack", "", "")

BaseReq == [tag |-> 0, sess |-> "", op |-> "", content |-> NoContent, id |-> "",
            n |-> 0, rating |-> 0, author |-> <<>>, text |-> <<>>, err |-> "",
            form |-> EmptyForm, file |-> NoAttachment, path |-> "", ctype |-> ""]

\* the suspended handlers of session s ("" is the AdminPanel, "api" the
\* endpoint); the calls of a mount effect carry tag 0 and are not counted
InFlight(s) == {r \in pending : r.sess = s /\ r.tag # 0}
Limit(s) == IF s = "api" THEN MaxRequests ELSE MaxInFlight
CanSuspend(s) == Cardinality(InFlight(s)) < Limit(s)
FreeTag(s) == CHOOSE t \in 1..Limit(s) : \A r \in InFlight(s) : r.tag # t

----------------------------------------------------------------------------
(* Sequence helpers *)

Range(seq) == {seq[i] : i \in 1..Len(seq)}

Reverse(seq) == [i \in 1..Len(seq) |-> seq[Len(seq) + 1 - i]]

\* prev.map(item => item.id === id ? updated : item)
MapReplace(list, id, updated) ==
    [i \in 1..Len(list) |-> IF list[i].id = id THEN updated ELSE list[i]]

\* prev.filter(item => item.id !== id)
FilterOut(list, id) == SelectSeq(list, LAMBDA item : item.id # id)

HasRow(tbl, id) == \E i \in 1..Len(tbl) : tbl[i].id = id
RowOf(tbl, id)  == tbl[CHOOSE i \in 1..Len(tbl) : tbl[i].id = id]

Perms(n) == {p \in [1..n -> 1..n] : \A i, j \in 1..n : p[i] = p[j] => i = j}

\* .order('downloads', { ascending: false }): every order the backend may
\* return, rows of equal count in any order
OrderedByDownloads(tbl) ==
    {[i \in 1..Len(tbl) |-> tbl[p[i]]] : p \in
        {q \in Perms(Len(tbl)) :
            \A i \in 1..(Len(tbl) - 1) : tbl[q[i]].downloads >= tbl[q[i + 1]].downloads}}

----------------------------------------------------------------------------
(* Remote store operations *)

\* .update({ downloads: d }).eq('id', id)
UpdateDownloads(tbl, id, d) ==
    [i \in 1..Len(tbl) |-> IF tbl[i].id = id THEN [tbl[i] EXCEPT !.downloads = d] ELSE tbl[i]]

\* .update({ rating: r, ratings_count: c }).eq('id', id)
UpdateRating(tbl, id, r, c) ==
    [i \in 1..Len(tbl) |->
        IF tbl[i].id = id THEN [tbl[i] EXCEPT !.rating = r, !.ratings_count = c] ELSE tbl[i]]

\* .delete().eq('id', id)
DeleteRow(tbl, id) == FilterOut(tbl, id)

----------------------------------------------------------------------------
(* App: which view is rendered (lines 356-379) *)

\* a gate that looks at showAdminPanel only
ViewUngated(s) ==
    IF showAdminPanel[s] THEN "admin"
    ELSE IF selectedContent[s] # NoContent THEN "detail"
    ELSE "list"

View(s) ==
    IF ~isAdmin[s] /\ showAdminPanel[s] THEN "login"
    ELSE IF showAdminPanel[s] THEN "admin"
    ELSE IF selectedContent[s] # NoContent THEN "detail"
    ELSE "list"

\* an event handler or a continuation of session s runs only once the
\* effects of the previous render have run
Ready(s) == ~effectPending[s]

Suspend(r) == pending' = pending \cup {r}
Resume(r, next) == pending' = (pending \ {r}) \cup next

----------------------------------------------------------------------------
(* App: the category filter *)

\* a slip in the switch: the Mod case tests the tag instead of the type
MatchesCategoryModTag(category, item) ==
    CASE category = "resource-packs" -> item.type = "Resource Pack"
      [] category = "mods"           -> item.type = "mods"
      [] category = "clients"        -> item.type = "Client"
      [] OTHER                       -> TRUE

\* the switch of the filter callback
MatchesCategory(category, item) ==
    CASE category = "resource-packs" -> item.type = "Resource Pack"
      [] category = "mods"           -> item.type = "Mod"
      [] category = "clients"        -> item.type = "Client"
      [] OTHER                       -> TRUE

\* useEffect(() => {...}, [activeCategory, featuredContent])
FilterEffect(s) ==
    /\ effectPending[s]
    /\ filteredContent' = [filteredContent EXCEPT ![s] =
          IF activeCategory[s] = "all" THEN featuredContent[s]
          ELSE SelectSeq(featuredContent[s],
                         LAMBDA item : MatchesCategory(activeCategory[s], item))]
    /\ effectPending' = [effectPending EXCEPT ![s] = FALSE]
    /\ ev' = Ev("filterEffect", s, "", 0, "")
    /\ net' = <<>>
    /\ ui' = {}
    /\ UNCHANGED <<remoteVars, activeCategory, featuredContent, error, authVars,
                   commentVars, selectedContent, adminVars, pending>>

\* onClick={() => setActiveCategory(category.id)}
SetActiveCategory(s, category) ==
    /\ Ready(s)
    /\ View(s) = "list"
    /\ activeCategory' = [activeCategory EXCEPT ![s] = category]
    /\ effectPending' = [effectPending EXCEPT ![s] = (category # activeCategory[s])]
    /\ ev' = Ev("setActiveCategory", s, category, 0, "")
    /\ net' = <<>>
    /\ ui' = {}
    /\ UNCHANGED <<remoteVars, featuredContent, error, filteredContent, authVars,
                   commentVars, selectedContent, adminVars, pending>>

\* fetchContent, from the select's answer on
FetchContentDone(s, outcome) ==
    \E r \in pending :
        /\ r.op = "fetchContent" /\ r.sess = s
        /\ Ready(s)
        /\ Resume(r, {})
        /\ CASE outcome = "ok" ->
                  \E data \in OrderedByDownloads(contentTable) :
                      /\ featuredContent' = [featuredContent EXCEPT ![s] = data]
                      /\ filteredContent' = [filteredContent EXCEPT ![s] = data]
                      /\ error' = [error EXCEPT ![s] = ""]
                      /\ effectPending' = [effectPending EXCEPT ![s] = TRUE]
             [] outcome = "error" ->
                  /\ error' = [error EXCEPT ![s] =
                        "Error fetching content. Please try again later."]
                  /\ UNCHANGED <<featuredContent, filteredContent, effectPending>>
             [] OTHER ->
                  /\ error' = [error EXCEPT ![s] =
                        "An unexpected error occurred. Please try again later."]
                  /\ UNCHANGED <<featuredContent, filteredContent, effectPending>>
        /\ ev' = Ev("fetchContent.done", s, "", 0, outcome)
        /\ net' = <<>>
        /\ ui' = {}
        /\ UNCHANGED <<remoteVars, activeCategory, authVars, commentVars,
                       selectedContent, adminVars>>

----------------------------------------------------------------------------
(* App: handleDownload *)

\* the items a download button is rendered for
Downloadable(s) ==
    IF View(s) = "detail" THEN {selectedContent[s]}
    ELSE IF View(s) = "list" THEN Range(filteredContent[s])
    ELSE {}

\* a guard that lets every item through
NoFileNever(item) == FALSE

\* if (!content.file_url)
NoFile(item) == item.file_url = ""

\* handleDownload up to the counter update (lines 125-137)
HandleDownload(s, item) ==
    /\ Ready(s)
    /\ item \in Downloadable(s)
    /\ ev' = Ev("handleDownload", s, item.id, item.downloads, "")
    /\ IF NoFile(item)
       THEN /\ ui' = {"alert: No file available for download."}
            /\ net' = <<>>
            /\ UNCHANGED pending
       ELSE /\ item.downloads < MaxDownloads
            /\ CanSuspend(s)
            /\ Suspend([BaseReq EXCEPT !.tag = FreeTag(s), !.sess = s,
                           !.op = "download.update", !.content = item,
                           !.id = item.id, !.n = item.downloads + 1,
                           !.err = error[s]])
            /\ net' = <<"content.update">>
            /\ ui' = {}
    /\ UNCHANGED <<remoteVars, appVars, adminVars>>

\* a handler that gives up when the counter update fails
AfterCounterUpdateGated(r, outcome) ==
    IF outcome = "ok" THEN {[r EXCEPT !.op = "download.fetch"]} ELSE {}

\* where handleDownload goes on after the counter update: an error returned
\* is logged (line 139), an exception is caught and logged (140-142), and
\* the handler reaches the fetch of line 146 in every case
AfterCounterUpdate(r, outcome) == {[r EXCEPT !.op = "download.fetch"]}

\* the counter update is answered; the file fetch starts (lines 134-146)
DownloadUpdateDone(s, outcome) ==
    \E r \in pending :
        /\ r.op = "download.update" /\ r.sess = s
        /\ Ready(s)
        /\ contentTable' = IF outcome = "ok"
                           THEN UpdateDownloads(contentTable, r.id, r.n)
                           ELSE contentTable
        /\ Resume(r, AfterCounterUpdate(r, outcome))
        /\ ev' = Ev("handleDownload.updated", s, r.id, r.n, outcome)
        /\ net' = IF AfterCounterUpdate(r, outcome) = {} THEN <<>> ELSE <<"fetch">>
        /\ ui' = {}
        /\ UNCHANGED <<commentTable, authSession, nextCommentId, appVars, adminVars>>

\* the file fetch is answered (lines 146-189); `error` is the one of the
\* render the handler was invoked in
DownloadFetchDone(s, outcome) ==
    \E r \in pending :
        /\ r.op = "download.fetch" /\ r.sess = s
        /\ Ready(s)
        /\ outcome \in {"ok", "throw"}
        /\ Resume(r, {})
        /\ ev' = Ev("handleDownload.done", s, r.id, r.n, outcome)
        /\ net' = <<>>
        /\ IF outcome = "ok"
           THEN /\ ui' = {"save"}
                /\ IF r.err = ""
                   THEN LET updatedContent == [r.content EXCEPT !.downloads = r.content.downloads + 1]
                        IN /\ featuredContent' = [featuredContent EXCEPT ![s] =
                                  MapReplace(featuredContent[s], r.id, updatedContent)]
                           /\ filteredContent' = [filteredContent EXCEPT ![s] =
                                  MapReplace(filteredContent[s], r.id, updatedContent)]
                           /\ effectPending' = [effectPending EXCEPT ![s] = TRUE]
                   ELSE UNCHANGED <<featuredContent, filteredContent, effectPending>>
           ELSE /\ ui' = {"alert: Download started in a new tab. You may need to save the file manually.",
                          "open"}
                /\ UNCHANGED <<featuredContent, filteredContent, effectPending>>
        /\ UNCHANGED <<remoteVars, activeCategory, error, authVars, commentVars,
                       selectedContent, adminVars>>

----------------------------------------------------------------------------
(* App: selecting an item and going back (lines 351-354, 385) *)

HandleSelectContent(s, item) ==
    /\ Ready(s)
    /\ View(s) = "list"
    /\ item \in Range(filteredContent[s])
    /\ CanSuspend(s)
    /\ selectedContent' = [selectedContent EXCEPT ![s] = item]
    /\ Suspend([BaseReq EXCEPT !.tag = FreeTag(s), !.sess = s, !.op = "fetchComments",
                   !.id = item.id])
    /\ ev' = Ev("handleSelectContent", s, item.id, 0, "")
    /\ net' = <<"comments.select">>
    /\ ui' = {}
    /\ UNCHANGED <<remoteVars, listVars, authVars, commentVars, adminVars>>

\* onClick={() => setSelectedContent(null)}
BackToList(s) ==
    /\ Ready(s)
    /\ View(s) = "detail"
    /\ selectedContent' = [selectedContent EXCEPT ![s] = NoContent]
    /\ ev' = Ev("backToList", s, "", 0, "")
    /\ net' = <<>>
    /\ ui' = {}
    /\ UNCHANGED <<remoteVars, listVars, authVars, commentVars, adminVars, pending>>

----------------------------------------------------------------------------
(* App: handleRate (lines 196-244) *)

\* x || 0 for a count that may be absent
OrZero(x) == IF x = NoCount THEN 0 ELSE x

\* a conversion that cuts the digits off: Math.floor(x * 10) / 10
ToFixed1Truncating(num, den) == {num \div den}

\* parseFloat((num / den).toFixed(1)) in tenths, for the quotient num/den of
\* tenths: the nearest tenth.  When the quotient lies exactly between two
\* tenths the double the code computed lies on either side of it (4.05 is
\* 4.04999..., 4.25 is exact and goes up), so both neighbours are results.
ToFixed1(num, den) ==
    LET f == num \div den
        rem == num % den
    IN  IF 2 * rem < den THEN {f}
        ELSE IF 2 * rem > den THEN {f + 1}
        ELSE {f, f + 1}

\* a new rating that is the sum of the ratings, not their mean
NewRatingUndivided(currentRating, ratingsCount, star) ==
    {currentRating * ratingsCount + 10 * star}

\* ((currentRating * ratingsCount) + rating) / newRatingsCount, one decimal
NewRating(currentRating, ratingsCount, star) ==
    ToFixed1(currentRating * ratingsCount + 10 * star, ratingsCount + 1)

\* selectedContent || filteredContent.find(item => item.id === contentId)
RateTarget(s, contentId) ==
    IF selectedContent[s] # NoContent THEN selectedContent[s]
    ELSE IF HasRow(filteredContent[s], contentId) THEN RowOf(filteredContent[s], contentId)
    ELSE NoContent

\* handleRate up to the update call; the control is on the detail view and
\* passes selectedContent.id
HandleRate(s, star) ==
    LET contentId == selectedContent[s].id
        item == RateTarget(s, contentId)
        ratingsCount == OrZero(item.ratings_count)
    IN  /\ Ready(s)
        /\ View(s) = "detail"
        /\ item # NoContent
        /\ ratingsCount < MaxRatings
        /\ CanSuspend(s)
        /\ \E newRating \in NewRating(item.rating, ratingsCount, star) :
              Suspend([BaseReq EXCEPT !.tag = FreeTag(s), !.sess = s, !.op = "rate",
                          !.content = item, !.id = contentId,
                          !.n = ratingsCount + 1, !.rating = newRating])
        /\ ev' = Ev("handleRate", s, contentId, star, "")
        /\ net' = <<"content.update">>
        /\ ui' = {}
        /\ UNCHANGED <<remoteVars, appVars, adminVars>>

\* the update is answered (lines 217-240); selectedContent in the test of
\* line 229 is the one of the render the handler was invoked in, r.content
HandleRateDone(s, outcome) ==
    \E r \in pending :
        /\ r.op = "rate" /\ r.sess = s
        /\ Ready(s)
        /\ Resume(r, {})
        /\ ev' = Ev("handleRate.done", s, r.id, 0, outcome)
        /\ net' = <<>>
        /\ IF outcome = "ok"
           THEN LET updatedContent == [r.content EXCEPT !.rating = r.rating,
                                                        !.ratings_count = r.n]
                IN /\ contentTable' = UpdateRating(contentTable, r.id, r.rating, r.n)
                   /\ selectedContent' = [selectedContent EXCEPT ![s] =
                         IF r.content.id = r.id THEN updatedContent ELSE @]
                   /\ featuredContent' = [featuredContent EXCEPT ![s] =
                         MapReplace(featuredContent[s], r.id, updatedContent)]
                   /\ filteredContent' = [filteredContent EXCEPT ![s] =
                         MapReplace(filteredContent[s], r.id, updatedContent)]
                   /\ effectPending' = [effectPending EXCEPT ![s] = TRUE]
                   /\ ui' = {"alert: Thank you for rating!"}
           ELSE /\ ui' = {}
                /\ UNCHANGED <<contentTable, selectedContent, featuredContent,
                               filteredContent, effectPending>>
        /\ UNCHANGED <<commentTable, authSession, nextCommentId, activeCategory, error,
                       authVars, commentVars, adminVars>>

----------------------------------------------------------------------------
(* App: comments (lines 246-349) *)

RECURSIVE TrimStart(_)
TrimStart(str) ==
    IF str # <<>> /\ Head(str) = " " THEN TrimStart(Tail(str)) ELSE str

\* String.prototype.trim
Trim(str) == Reverse(TrimStart(Reverse(TrimStart(str))))

\* .eq('content_id', id).order('created_at', { ascending: false })
CommentsOf(tbl, contentId) ==
    Reverse(SelectSeq(tbl, LAMBDA row : row.content_id = contentId))

FetchCommentsDone(s, outcome) ==
    \E r \in pending :
        /\ r.op = "fetchComments" /\ r.sess = s
        /\ Ready(s)
        /\ Resume(r, {})
        /\ comments' = [comments EXCEPT ![s] =
              IF outcome = "ok" THEN CommentsOf(commentTable, r.id) ELSE @]
        /\ ev' = Ev("fetchComments.done", s, r.id, 0, outcome)
        /\ net' = <<>>
        /\ ui' = {}
        /\ UNCHANGED <<remoteVars, listVars, authVars, commentAuthor, commentText,
                       selectedContent, adminVars>>

\* onChange={(e) => setCommentAuthor(e.target.value)}
SetCommentAuthor(s, value) ==
    /\ Ready(s)
    /\ View(s) = "detail"
    /\ commentAuthor' = [commentAuthor EXCEPT ![s] = value]
    /\ ev' = Ev("setCommentAuthor", s, "", 0, "")
    /\ net' = <<>>
    /\ ui' = {}
    /\ UNCHANGED <<remoteVars, listVars, authVars, comments, commentText,
                   selectedContent, adminVars, pending>>

\* onChange={(e) => setCommentText(e.target.value)}
SetCommentText(s, value) ==
    /\ Ready(s)
    /\ View(s) = "detail"
    /\ commentText' = [commentText EXCEPT ![s] = value]
    /\ ev' = Ev("setCommentText", s, "", 0, "")
    /\ net' = <<>>
    /\ ui' = {}
    /\ UNCHANGED <<remoteVars, listVars, authVars, comments, commentAuthor,
                   selectedContent, adminVars, pending>>

\* a guard that looks at the fields as typed
CommentRejectedUntrimmed(author, text) == author = <<>> \/ text = <<>>

\* if (!commentAuthor.trim() || !commentText.trim())
CommentRejected(author, text) == Trim(author) = <<>> \/ Trim(text) = <<>>

\* rows a pending insert may still add
InsertsInFlight == Cardinality({r \in pending : r.op = "postComment"})

\* tells the inserts that were called and not yet served apart
FreeTicket == CHOOSE k \in 1..MaxComments : \A r \in pending : r.op = "postComment" => r.n # k

\* postComment up to the insert call (lines 268-289); nothing disables the
\* button while an insert is awaited, so the inserts in flight are bounded
\* by the rows they may add and take none of the session's handler slots
PostComment(s) ==
    LET contentId == selectedContent[s].id
    IN  /\ Ready(s)
        /\ View(s) = "detail"
        /\ ev' = Ev("postComment", s, contentId, 0, "")
        /\ IF CommentRejected(commentAuthor[s], commentText[s])
           THEN /\ ui' = {"alert: Please enter your name and comment"}
                /\ net' = <<>>
                /\ UNCHANGED pending
           ELSE /\ nextCommentId + InsertsInFlight <= MaxComments
                /\ Suspend([BaseReq EXCEPT !.sess = s,
                               !.op = "postComment", !.id = contentId,
                               !.n = FreeTicket,
                               !.author = Trim(commentAuthor[s]),
                               !.text = Trim(commentText[s])])
                /\ net' = <<"comments.insert">>
                /\ ui' = {}
        /\ UNCHANGED <<remoteVars, appVars, adminVars>>

\* the backend serves the insert (lines 282-289): it adds the row, with the
\* next id, or it refuses; the answer is on its way
PostCommentServed(s, wrote) ==
    \E r \in pending :
        /\ r.op = "postComment" /\ r.sess = s
        /\ ev' = Ev("comments.insert", s, r.id, nextCommentId, "")
        /\ net' = <<>>
        /\ ui' = {}
        /\ IF wrote
           THEN /\ commentTable' = Append(commentTable,
                                          Comment(nextCommentId, r.id, r.author, r.text))
                /\ nextCommentId' = nextCommentId + 1
                /\ Resume(r, {[r EXCEPT !.op = "postComment.wrote", !.n = nextCommentId]})
           ELSE /\ Resume(r, {[r EXCEPT !.op = "postComment.failed", !.n = 0]})
                /\ UNCHANGED <<commentTable, nextCommentId>>
        /\ UNCHANGED <<contentTable, authSession, appVars, adminVars>>

\* prevComments => [newComment, ...prevComments]
PrependComment(newComment, prevComments) == <<newComment>> \o prevComments

\* the answer of the insert arrives (lines 291-318): after a write "ok"
\* echoes the new row and "norow" echoes nothing; after a refusal "error" is
\* the error returned and "throw" a rejected call
PostCommentDone(s, outcome) ==
    \E r \in pending :
        /\ r.sess = s
        /\ \/ r.op = "postComment.wrote" /\ outcome \in {"ok", "norow"}
           \/ r.op = "postComment.failed" /\ outcome \in {"error", "throw"}
        /\ Ready(s)
        /\ ev' = Ev("postComment.done", s, r.id, r.n, outcome)
        /\ LET newComment == Comment(r.n, r.id, r.author, r.text)
           IN CASE outcome = "ok" ->
                     /\ comments' = [comments EXCEPT ![s] = PrependComment(newComment, @)]
                     /\ commentText' = [commentText EXCEPT ![s] = <<>>]
                     /\ Resume(r, {})
                     /\ net' = <<>>
                     /\ ui' = {"alert: Comment posted successfully!"}
                [] outcome = "norow" ->
                     /\ Resume(r, {[BaseReq EXCEPT !.sess = s, !.op = "fetchComments",
                                       !.id = r.id, !.n = r.n]})
                     /\ net' = <<"comments.select">>
                     /\ ui' = {}
                     /\ UNCHANGED <<comments, commentText>>
                [] outcome = "error" ->
                     /\ Resume(r, {})
                     /\ net' = <<>>
                     /\ ui' = {"alert: Failed to post comment"}
                     /\ UNCHANGED <<comments, commentText>>
                [] OTHER ->
                     /\ Resume(r, {})
                     /\ net' = <<>>
                     /\ ui' = {"alert: An error occurred while posting your comment."}
                     /\ UNCHANGED <<comments, commentText>>
        /\ UNCHANGED <<remoteVars, listVars, authVars, commentAuthor,
                       selectedContent, adminVars>>

\* a guard that lets every caller through
NotAdminNever(s) == FALSE

\* if (!isAdmin)
NotAdmin(s) == ~isAdmin[s]

\* deleteComment up to the delete call (lines 321-334)
DeleteComment(s, commentId) ==
    /\ Ready(s)
    /\ View(s) = "detail"
    /\ \E c \in Range(comments[s]) : c.id = commentId
    /\ ev' = Ev("deleteComment", s, "", commentId, "")
    /\ IF NotAdmin(s)
       THEN /\ ui' = {"alert: Only administrators can delete comments."}
            /\ net' = <<>>
            /\ UNCHANGED pending
       ELSE /\ CanSuspend(s)
            /\ Suspend([BaseReq EXCEPT !.tag = FreeTag(s), !.sess = s,
                           !.op = "deleteComment", !.n = commentId])
            /\ net' = <<"comments.delete">>
            /\ ui' = {}
    /\ UNCHANGED <<remoteVars, appVars, adminVars>>

\* the delete is answered (lines 336-348)
DeleteCommentDone(s, outcome) ==
    \E r \in pending :
        /\ r.op = "deleteComment" /\ r.sess = s
        /\ Ready(s)
        /\ Resume(r, {})
        /\ ev' = Ev("deleteComment.done", s, "", r.n, outcome)
        /\ net' = <<>>
        /\ CASE outcome = "ok" ->
                  /\ commentTable' = FilterOut(commentTable, r.n)
                  /\ comments' = [comments EXCEPT ![s] = FilterOut(@, r.n)]
                  /\ ui' = {"alert: Comment deleted successfully"}
             [] outcome = "error" ->
                  /\ ui' = {"alert: Failed to delete comment"}
                  /\ UNCHANGED <<commentTable, comments>>
             [] OTHER ->
                  /\ ui' = {"alert: An error occurred while deleting the comment."}
                  /\ UNCHANGED <<commentTable, comments>>
        /\ UNCHANGED <<contentTable, authSession, nextCommentId, listVars, authVars,
                       commentAuthor, commentText, selectedContent, adminVars>>

----------------------------------------------------------------------------
(* App: admin status (lines 70-86, 110-123, 364, 388, 572, 580) *)

\* checkAdmin, from getSession's answer on
CheckAdminDone(s, outcome) ==
    \E r \in pending :
        /\ r.op = "checkAdmin" /\ r.sess = s
        /\ Ready(s)
        /\ Resume(r, {})
        /\ isAdmin' = [isAdmin EXCEPT ![s] = IF outcome = "ok" THEN authSession[s] ELSE FALSE]
        /\ ev' = Ev("checkAdmin.done", s, "", 0, outcome)
        /\ net' = <<>>
        /\ ui' = {}
        /\ UNCHANGED <<remoteVars, listVars, showAdminPanel, commentVars,
                       selectedContent, adminVars>>

\* onClick={() => setShowAdminPanel(true)}
OpenAdminPanel(s) ==
    /\ Ready(s)
    /\ View(s) \in {"list", "detail"}
    /\ showAdminPanel' = [showAdminPanel EXCEPT ![s] = TRUE]
    /\ ev' = Ev("openAdminPanel", s, "", 0, "")
    /\ net' = <<>>
    /\ ui' = {}
    /\ UNCHANGED <<remoteVars, listVars, isAdmin, commentVars, selectedContent,
                   adminVars, pending>>

\* onClick={() => setShowAdminPanel(false)}
CloseAdminPanel(s) ==
    /\ Ready(s)
    /\ View(s) = "admin"
    /\ showAdminPanel' = [showAdminPanel EXCEPT ![s] = FALSE]
    /\ ev' = Ev("closeAdminPanel", s, "", 0, "")
    /\ net' = <<>>
    /\ ui' = {}
    /\ UNCHANGED <<remoteVars, listVars, isAdmin, commentVars, selectedContent,
                   adminVars, pending>>

\* the Login component, before it calls onLogin, signs in with the
\* authentication service: the browser then holds an auth session
SignedIn(s) == [authSession EXCEPT ![s] = TRUE]

\* onLogin={handleLogin}, called by Login after a successful sign-in
HandleLogin(s) ==
    /\ Ready(s)
    /\ View(s) = "login"
    /\ authSession' = SignedIn(s)
    /\ isAdmin' = [isAdmin EXCEPT ![s] = TRUE]
    /\ showAdminPanel' = [showAdminPanel EXCEPT ![s] = TRUE]
    /\ ev' = Ev("handleLogin", s, "", 0, "")
    /\ net' = <<>>
    /\ ui' = {}
    /\ UNCHANGED <<contentTable, commentTable, nextCommentId, listVars, commentVars,
                   selectedContent, adminVars, pending>>

\* a sign-out that forgets to leave the panel
LoggedOutKeepsPanel(s) ==
    /\ isAdmin' = [isAdmin EXCEPT ![s] = FALSE]
    /\ UNCHANGED showAdminPanel

\* setIsAdmin(false); setShowAdminPanel(false); (lines 118-119), both in the
\* one continuation that follows the await
LoggedOut(s) ==
    /\ isAdmin' = [isAdmin EXCEPT ![s] = FALSE]
    /\ showAdminPanel' = [showAdminPanel EXCEPT ![s] = FALSE]

\* handleLogout up to the signOut call
HandleLogout(s) ==
    /\ Ready(s)
    /\ View(s) = "admin"
    /\ CanSuspend(s)
    /\ Suspend([BaseReq EXCEPT !.tag = FreeTag(s), !.sess = s, !.op = "signOut"])
    /\ ev' = Ev("handleLogout", s, "", 0, "")
    /\ net' = <<"auth.signOut">>
    /\ ui' = {}
    /\ UNCHANGED <<remoteVars, appVars, adminVars>>

\* signOut resolves or throws
HandleLogoutDone(s, outcome) ==
    \E r \in pending :
        /\ r.op = "signOut" /\ r.sess = s
        /\ Ready(s)
        /\ outcome \in {"ok", "throw"}
        /\ Resume(r, {})
        /\ IF outcome = "ok"
           THEN /\ authSession' = [authSession EXCEPT ![s] = FALSE]
                /\ LoggedOut(s)
           ELSE UNCHANGED <<authSession, isAdmin, showAdminPanel>>
        /\ ev' = Ev("handleLogout.done", s, "", 0, outcome)
        /\ net' = <<>>
        /\ ui' = {}
        /\ UNCHANGED <<contentTable, commentTable, nextCommentId, listVars, commentVars,
                       selectedContent, adminVars>>

----------------------------------------------------------------------------
(* AdminPanel: the content list and the delete flow (lines 750-762, 888-923,
   1093-1119) *)

\* .order('created_at', { ascending: false })
OrderedByCreation(tbl) == Reverse(tbl)

\* a call of fetchContent in flight: the one of the mount effect
\* (useEffect(() => { fetchContent(); checkAuthStatus(); }, [])) or the one
\* that follows a submit
AdminFetchContentReq == [BaseReq EXCEPT !.op = "admin.fetchContent"]

\* fetchContent called without await (on mount, after a submit)
AdminFetchContentDone(outcome) ==
    \E r \in pending :
        /\ r.op = "admin.fetchContent"
        /\ Resume(r, {})
        /\ content' = IF outcome = "ok" THEN OrderedByCreation(contentTable) ELSE content
        /\ ev' = Ev("admin.fetchContent.done", "", "", 0, outcome)
        /\ net' = <<>>
        /\ ui' = {}
        /\ UNCHANGED <<remoteVars, appVars, adminError, deletingId, showDeleteConfirm,
                       formVars, storeVars>>

\* onClick={() => confirmDelete(item.id)}
ConfirmDelete(id) ==
    /\ \E item \in Range(content) : item.id = id
    /\ deletingId' = id
    /\ showDeleteConfirm' = TRUE
    /\ ev' = Ev("confirmDelete", "", id, 0, "")
    /\ net' = <<>>
    /\ ui' = {}
    /\ UNCHANGED <<remoteVars, appVars, content, adminError, formVars, storeVars, pending>>

\* the modal's Cancel button
CancelDelete ==
    /\ showDeleteConfirm
    /\ showDeleteConfirm' = FALSE
    /\ deletingId' = ""
    /\ ev' = Ev("cancelDelete", "", deletingId, 0, "")
    /\ net' = <<>>
    /\ ui' = {}
    /\ UNCHANGED <<remoteVars, appVars, content, adminError, formVars, storeVars, pending>>

\* a Delete button that is always there and calls handleDelete(deletingId)
DeleteOfferedAlways == TRUE

\* {showDeleteConfirm && ...} and deletingId && handleDelete(deletingId)
DeleteOffered == showDeleteConfirm /\ deletingId # ""

\* the modal's Delete button, up to the delete call
HandleDelete ==
    /\ DeleteOffered
    /\ CanSuspend("")
    /\ adminError' = ""
    /\ Suspend([BaseReq EXCEPT !.tag = FreeTag(""), !.op = "admin.delete", !.id = deletingId])
    /\ ev' = Ev("handleDelete", "", deletingId, 0, "")
    /\ net' = <<"content.delete">>
    /\ ui' = {}
    /\ UNCHANGED <<remoteVars, appVars, content, deletingId, showDeleteConfirm,
                   formVars, storeVars>>

DeleteFailedMessage == "Failed to delete content on server, but removed from view."

\* the delete is answered (lines 899-917)
HandleDeleteDone(outcome) ==
    \E r \in pending :
        /\ r.op = "admin.delete"
        /\ ev' = Ev("handleDelete.deleted", "", r.id, 0, outcome)
        /\ ui' = {}
        /\ CASE outcome = "ok" ->
                  /\ contentTable' = DeleteRow(contentTable, r.id)
                  /\ Resume(r, {[r EXCEPT !.op = "admin.delete.fetch"]})
                  /\ net' = <<"content.select">>
                  /\ UNCHANGED <<content, adminError, deletingId, showDeleteConfirm>>
             [] outcome = "error" ->
                  /\ content' = FilterOut(content, r.id)
                  /\ deletingId' = ""
                  /\ showDeleteConfirm' = FALSE
                  /\ Resume(r, {})
                  /\ net' = <<>>
                  /\ UNCHANGED <<contentTable, adminError>>
             [] OTHER ->
                  /\ adminError' = DeleteFailedMessage
                  /\ content' = FilterOut(content, r.id)
                  /\ Resume(r, {})
                  /\ net' = <<>>
                  /\ UNCHANGED <<contentTable, deletingId, showDeleteConfirm>>
        /\ UNCHANGED <<commentTable, authSession, nextCommentId, appVars, formVars, storeVars>>

\* await fetchContent() of line 906 is answered
HandleDeleteFetchDone(outcome) ==
    \E r \in pending :
        /\ r.op = "admin.delete.fetch"
        /\ Resume(r, {})
        /\ ev' = Ev("handleDelete.done", "", r.id, 0, outcome)
        /\ net' = <<>>
        /\ ui' = {}
        /\ CASE outcome = "ok" ->
                  /\ content' = OrderedByCreation(contentTable)
                  /\ deletingId' = ""
                  /\ showDeleteConfirm' = FALSE
                  /\ UNCHANGED adminError
             [] outcome = "error" ->
                  /\ deletingId' = ""
                  /\ showDeleteConfirm' = FALSE
                  /\ UNCHANGED <<content, adminError>>
             [] OTHER ->
                  /\ adminError' = DeleteFailedMessage
                  /\ content' = FilterOut(content, r.id)
                  /\ UNCHANGED <<deletingId, showDeleteConfirm>>
        /\ UNCHANGED <<remoteVars, appVars, formVars, storeVars>>

----------------------------------------------------------------------------
(* AdminPanel: file names, content types and sizes (lines 777-807, 928) *)

MB == 1024 * 1024

\* 50 * 1024 * 1024
MaxFileSize == 50 * 1024 * 1024

\* Number.prototype.toString for one decimal digit and for a natural number
Digit(d) == <<"0", "1", "2", "3", "4", "5", "6", "7", "8", "9">>[d + 1]

RECURSIVE Digits(_)
Digits(n) == IF n < 10 THEN Digit(n) ELSE Digits(n \div 10) \o Digit(n % 10)

\* String.prototype.toLowerCase on one character
Lower(c) ==
    CASE c = "H" -> "h" [] c = "T" -> "t" [] c = "M" -> "m" [] c = "L" -> "l"
      [] OTHER -> c

ToLowerCase(str) == [i \in 1..Len(str) |-> Lower(str[i])]

\* name.split('.').pop(): what follows the last '.', the whole name when it
\* has none
RECURSIVE LastSegment(_)
LastSegment(name) ==
    IF name = <<>> THEN <<>>
    ELSE IF name[Len(name)] = "." THEN <<>>
    ELSE LastSegment(SubSeq(name, 1, Len(name) - 1)) \o <<name[Len(name)]>>

\* the characters of a name as one string
RECURSIVE Join(_)
Join(str) == IF str = <<>> THEN "" ELSE str[1] \o Join(Tail(str))

\* a content type that trusts the declared type and compares the extension
\* as it is written
UploadContentTypeCaseSensitive(f) ==
    IF f.type = "text/html" \/ LastSegment(f.name) = <<"h", "t", "m", "l">>
    THEN "application/octet-stream"
    ELSE f.type

\* contentType of the upload (lines 778, 784-787)
UploadContentType(f) ==
    IF f.type = "text/html" \/ ToLowerCase(LastSegment(f.name)) = <<"h", "t", "m", "l">>
    THEN "application/octet-stream"
    ELSE f.type

\* Math.random().toString(36).substring(2): a name no stored object has (a
\* name that is taken makes the upload fail like any other error)
UniqueId == "u" \o Digits(Cardinality(storage) + 1)

\* `content/${uniqueId}-${file.name}`
FilePath(uniqueId, f) == "content/" \o uniqueId \o "-" \o Join(f.name)

\* getPublicUrl(filePath).data.publicUrl
PublicUrl(path) == "https://storage/content-files/" \o path

\* (size / (1024 * 1024)).toFixed(2) in hundredths: the quotient is exact in
\* a double, and of two nearest hundredths toFixed takes the larger
ToFixed2(size) == (size \div MB) * 100 + ((size % MB) * 100 + MB \div 2) \div MB

\* (file.size / (1024 * 1024)).toFixed(2) + 'MB'
SizeLabel(size) ==
    LET h == ToFixed2(size)
    IN  Digits(h \div 100) \o "." \o Digit((h \div 10) % 10) \o Digit(h % 10) \o "MB"

\* what uploadFile returns; fileData = null is both fields empty
FileData(url, size) == [url |-> url, size |-> size]
NoFileData == FileData("", "")

\* a record that keeps what the form holds and drops the upload's result
ContentDataIgnoringUpload(form, fileData) == form

\* contentData (lines 826-830)
ContentData(form, fileData) ==
    [form EXCEPT !.file_size = IF fileData.size # "" THEN fileData.size ELSE form.file_size,
                 !.file_url = IF fileData.url # "" THEN fileData.url ELSE form.file_url]

----------------------------------------------------------------------------
(* AdminPanel: remote writes of handleSubmit (lines 832-855) *)

\* the id the store gives the n-th inserted row
NewId(n) == "n" \o Digits(n)

\* a row inserted as if it had been downloaded once already
InsertedRowCounted(id, contentData) ==
    [id |-> id, title |-> contentData.title, type |-> contentData.type, downloads |-> 1,
     rating |-> 0, ratings_count |-> NoCount, author |-> "admin",
     file_size |-> contentData.file_size, file_url |-> contentData.file_url]

\* .insert([{ ...contentData, downloads: 0, rating: 0, author: 'admin' }])
InsertedRow(id, contentData) ==
    [id |-> id, title |-> contentData.title, type |-> contentData.type, downloads |-> 0,
     rating |-> 0, ratings_count |-> NoCount, author |-> "admin",
     file_size |-> contentData.file_size, file_url |-> contentData.file_url]

\* .update({ ...contentData, updated_at }).eq('id', id)
UpdateRow(tbl, id, contentData) ==
    [i \in 1..Len(tbl) |->
        IF tbl[i].id = id
        THEN [tbl[i] EXCEPT !.title = contentData.title, !.type = contentData.type,
                            !.file_size = contentData.file_size,
                            !.file_url = contentData.file_url]
        ELSE tbl[i]]

----------------------------------------------------------------------------
(* AdminPanel: the form (lines 925-936, 958-1090, 875-886) *)

\* onChange={(e) => setFormData({ ...formData, [key]: e.target.value })}
SetFormData(key, value) ==
    /\ formData' = [formData EXCEPT ![key] = value]
    /\ ev' = Ev("setFormData", "", "", 0, "")
    /\ net' = <<>>
    /\ ui' = {}
    /\ UNCHANGED <<remoteVars, appVars, content, adminError, deletingId, showDeleteConfirm,
                   isEditing, file, uploading, storeVars, pending>>

FileTooLargeMessage == "File size exceeds the 50MB limit. Please select a smaller file."

\* a limit that lets every file through
FileTooLargeNever(f) == FALSE

\* selectedFile.size > 50 * 1024 * 1024
FileTooLarge(f) == f.size > MaxFileSize

\* handleFileChange; the chooser hands over a file or, when it is dismissed,
\* none
HandleFileChange(selectedFile) ==
    /\ IF selectedFile # NoAttachment /\ FileTooLarge(selectedFile)
       THEN /\ adminError' = FileTooLargeMessage
            /\ UNCHANGED file
       ELSE /\ file' = selectedFile
            /\ adminError' = ""
    /\ ev' = Ev("handleFileChange", "", Join(selectedFile.name), selectedFile.size, "")
    /\ net' = <<>>
    /\ ui' = {}
    /\ UNCHANGED <<remoteVars, appVars, content, deletingId, showDeleteConfirm,
                   formData, isEditing, uploading, storeVars, pending>>

\* onClick={() => handleEdit(item)}
HandleEdit(item) ==
    /\ item \in Range(content)
    /\ formData' = ContentFormData(item.title, item.type, item.file_size, item.file_url)
    /\ isEditing' = item.id
    /\ ev' = Ev("handleEdit", "", item.id, 0, "")
    /\ net' = <<>>
    /\ ui' = {}
    /\ UNCHANGED <<remoteVars, appVars, content, adminError, deletingId, showDeleteConfirm,
                   file, uploading, storeVars, pending>>

\* the form's Cancel button, rendered while isEditing (lines 1049-1067)
CancelEdit ==
    /\ isEditing # ""
    /\ formData' = EmptyForm
    /\ isEditing' = ""
    /\ file' = NoAttachment
    /\ ev' = Ev("cancelEdit", "", isEditing, 0, "")
    /\ net' = <<>>
    /\ ui' = {}
    /\ UNCHANGED <<remoteVars, appVars, content, adminError, deletingId, showDeleteConfirm,
                   uploading, storeVars, pending>>

----------------------------------------------------------------------------
(* AdminPanel: handleSubmit and uploadFile (lines 773-873) *)

SaveFailedMessage == "Failed to save content. Please try again."

\* rows inserted so far and inserts in flight
InsertsStarted == (nextContentId - 1) + Cardinality({r \in pending : r.op = "submit.insert"})

\* the insert or update of lines 832-855, for the edit target `editing` the
\* handler captured
WriteReq(r, editing, contentData) ==
    [r EXCEPT !.op = IF editing # "" THEN "submit.update" ELSE "submit.insert",
              !.id = editing, !.form = contentData]
WriteCall(editing) == IF editing # "" THEN "content.update" ELSE "content.insert"

\* the form is submitted: the button is disabled while uploading, and the
\* browser refuses a form whose required fields are empty; handleSubmit runs
\* up to its first await
HandleSubmit ==
    /\ ~uploading
    /\ formData.title # "" /\ formData.file_size # ""
    /\ CanSuspend("")
    /\ isEditing = "" => InsertsStarted < MaxCreates
    /\ file # NoAttachment => Cardinality(storage) < MaxUploads
    /\ adminError' = ""
    /\ ev' = Ev("handleSubmit", "", isEditing, 0, "")
    /\ ui' = {}
    /\ IF file # NoAttachment
       THEN /\ uploading' = TRUE
            /\ Suspend([BaseReq EXCEPT !.tag = FreeTag(""), !.op = "submit.upload",
                           !.id = isEditing, !.form = formData, !.file = file,
                           !.path = FilePath(UniqueId, file),
                           !.ctype = UploadContentType(file)])
            /\ net' = <<"storage.upload">>
       ELSE /\ UNCHANGED uploading
            /\ Suspend(WriteReq([BaseReq EXCEPT !.tag = FreeTag("")], isEditing,
                                ContentData(formData, NoFileData)))
            /\ net' = <<WriteCall(isEditing)>>
    /\ UNCHANGED <<remoteVars, appVars, content, deletingId, showDeleteConfirm,
                   formData, isEditing, file, storeVars>>

\* the upload is answered (lines 790-830): an error returned is thrown, the
\* finally clears `uploading`, and handleSubmit's catch sets the message
HandleSubmitUploaded(outcome) ==
    \E r \in pending :
        /\ r.op = "submit.upload"
        /\ uploading' = FALSE
        /\ ev' = Ev("handleSubmit.uploaded", "", r.id, 0, outcome)
        /\ ui' = {}
        /\ IF outcome = "ok"
           THEN /\ \A o \in storage : o.path # r.path
                /\ storage' = storage \cup
                      {[path |-> r.path, contentType |-> r.ctype, size |-> r.file.size]}
                /\ Resume(r, {WriteReq(r, r.id,
                                 ContentData(r.form, FileData(PublicUrl(r.path),
                                                              SizeLabel(r.file.size))))})
                /\ net' = <<WriteCall(r.id)>>
                /\ UNCHANGED adminError
           ELSE /\ Resume(r, {})
                /\ adminError' = SaveFailedMessage
                /\ net' = <<>>
                /\ UNCHANGED storage
        /\ UNCHANGED <<remoteVars, appVars, content, deletingId, showDeleteConfirm,
                       formData, isEditing, file, nextContentId>>

\* the insert or update is answered (lines 842-872); fetchContent() of line
\* 868 is called without await
HandleSubmitDone(outcome) ==
    \E r \in pending :
        /\ r.op \in {"submit.insert", "submit.update"}
        /\ ev' = Ev(IF r.op = "submit.insert" THEN "handleSubmit.inserted"
                    ELSE "handleSubmit.updated", "", r.id, 0, outcome)
        /\ ui' = {}
        /\ IF outcome = "ok"
           THEN /\ IF r.op = "submit.insert"
                   THEN /\ contentTable' =
                              Append(contentTable, InsertedRow(NewId(nextContentId), r.form))
                        /\ nextContentId' = nextContentId + 1
                   ELSE /\ contentTable' = UpdateRow(contentTable, r.id, r.form)
                        /\ UNCHANGED nextContentId
                /\ formData' = EmptyForm
                /\ isEditing' = ""
                /\ file' = NoAttachment
                /\ Resume(r, {AdminFetchContentReq})
                /\ net' = <<"content.select">>
                /\ UNCHANGED adminError
           ELSE /\ adminError' = SaveFailedMessage
                /\ Resume(r, {})
                /\ net' = <<>>
                /\ UNCHANGED <<contentTable, nextContentId, formData, isEditing, file>>
        /\ UNCHANGED <<commentTable, authSession, nextCommentId, appVars, content,
                       deletingId, showDeleteConfirm, uploading, storage>>

----------------------------------------------------------------------------
(* The download endpoint (src/pages/api/download.ts) *)

\* a request for ?id= arrives; the select is issued
ApiDownload(id) ==
    /\ CanSuspend("api")
    /\ Suspend([BaseReq EXCEPT !.tag = FreeTag("api"), !.sess = "api", !.op = "api.select",
                   !.id = id])
    /\ ev' = Ev("api.download", "api", id, 0, "")
    /\ net' = <<"content.select">>
    /\ ui' = {}
    /\ UNCHANGED <<remoteVars, appVars, adminVars>>

\* .single() is answered (lines 15-29): no row is an error
ApiSelectDone(outcome) ==
    \E r \in pending :
        /\ r.op = "api.select"
        /\ ev' = Ev("api.download.selected", "api", r.id, 0, outcome)
        /\ IF outcome = "ok" /\ HasRow(contentTable, r.id)
           THEN LET data == RowOf(contentTable, r.id)
                IN /\ data.downloads < MaxDownloads
                   /\ Resume(r, {[r EXCEPT !.op = "api.update", !.content = data,
                                           !.n = data.downloads + 1]})
                   /\ net' = <<"content.update">>
                   /\ ui' = {}
           ELSE /\ Resume(r, {})
                /\ net' = <<>>
                /\ ui' = IF outcome = "throw" THEN {"500"} ELSE {"404"}
        /\ UNCHANGED <<remoteVars, appVars, adminVars>>

\* the update is answered; its result is not looked at (lines 26-32)
ApiUpdateDone(outcome) ==
    \E r \in pending :
        /\ r.op = "api.update"
        /\ ev' = Ev("api.download.updated", "api", r.id, r.n, outcome)
        /\ contentTable' = IF outcome = "ok"
                           THEN UpdateDownloads(contentTable, r.id, r.n)
                           ELSE contentTable
        /\ IF outcome = "throw"
           THEN /\ Resume(r, {})
                /\ net' = <<>>
                /\ ui' = {"500"}
           ELSE /\ Resume(r, {[r EXCEPT !.op = "api.fetch"]})
                /\ net' = <<"fetch">>
                /\ ui' = {}
        /\ UNCHANGED <<commentTable, authSession, nextCommentId, appVars, adminVars>>

\* fetch(data.file_url) is answered (lines 32-45); no URL cannot be fetched
ApiFetchDone(outcome) ==
    \E r \in pending :
        /\ r.op = "api.fetch"
        /\ outcome \in {"ok", "throw"}
        /\ outcome = "ok" => r.content.file_url # ""
        /\ Resume(r, {})
        /\ ev' = Ev("api.download.done", "api", r.id, r.n, outcome)
        /\ net' = <<>>
        /\ ui' = IF outcome = "ok" THEN {"200 attachment"} ELSE {"500"}
        /\ UNCHANGED <<remoteVars, appVars, adminVars>>

----------------------------------------------------------------------------
(* Initial states *)

\* useEffect(() => { checkAdmin(); fetchContent(); }, []) of session s
FetchContentReq(s) == [BaseReq EXCEPT !.sess = s, !.op = "fetchContent"]
CheckAdminReq(s)   == [BaseReq EXCEPT !.sess = s, !.op = "checkAdmin"]

\* the useState defaults of App and AdminPanel, the remote store holding tbl
\* and cmts, and the calls `reqs` in flight; the sessions in `signedIn` have
\* logged in, which opened the panel; the browsers of those in `kept` hold
\* an auth session of an earlier visit
InitWith(tbl, cmts, reqs, signedIn, kept) ==
    /\ contentTable = tbl
    /\ commentTable = cmts
    /\ authSession = [s \in Sessions |-> s \in signedIn \cup kept]
    /\ nextCommentId = Len(cmts) + 1
    /\ activeCategory = [s \in Sessions |-> "all"]
    /\ selectedContent = [s \in Sessions |-> NoContent]
    /\ isAdmin = [s \in Sessions |-> s \in signedIn]
    /\ showAdminPanel = [s \in Sessions |-> s \in signedIn]
    /\ featuredContent = [s \in Sessions |-> <<>>]
    /\ error = [s \in Sessions |-> ""]
    /\ filteredContent = [s \in Sessions |-> <<>>]
    /\ comments = [s \in Sessions |-> <<>>]
    /\ commentAuthor = [s \in Sessions |-> <<>>]
    /\ commentText = [s \in Sessions |-> <<>>]
    /\ effectPending = [s \in Sessions |-> FALSE]
    /\ content = <<>>
    /\ adminError = ""
    /\ deletingId = ""
    /\ showDeleteConfirm = FALSE
    /\ formData = EmptyForm
    /\ isEditing = ""
    /\ file = NoAttachment
    /\ uploading = FALSE
    /\ storage = {}
    /\ nextContentId = 1
    /\ pending = reqs
    /\ ev = NoEv
    /\ net = <<>>
    /\ ui = {}

FileA == "files/a.zip"

\* files the chooser can hand over: an archive of 1MB, one of exactly 50MB
\* and one a byte larger; HTML by declared type, by extension in either
\* case, and by neither; a file whose whole name is html
ZipName == <<"a", ".", "z", "i", "p">>
FileZip       == File(ZipName, "application/zip", MB)
FileAtLimit   == File(ZipName, "application/zip", MaxFileSize)
FileOverLimit == File(ZipName, "application/zip", MaxFileSize + 1)
FileHtml      == File(<<"a", ".", "h", "t", "m", "l">>, "text/html", 1500)
FileUpperHtml == File(<<"a", ".", "H", "T", "M", "L">>, "", 1500)
FileHtm       == File(<<"a", ".", "h", "t", "m">>, "text/html", 1500)
FileXhtml     == File(<<"a", ".", "x", "h", "t", "m", "l">>, "application/xhtml+xml", 1500)
FileNamedHtml == File(<<"h", "t", "m", "l">>, "image/png", 1500)
Files == {FileZip, FileAtLimit, FileOverLimit, FileHtml, FileUpperHtml, FileHtm,
          FileXhtml, FileNamedHtml}

\* what is typed into the form's fields
FormInputs == {<<"title", "Test Pack">>, <<"title", "">>, <<"type", "Mod">>,
               <<"file_size", "2MB">>}

----------------------------------------------------------------------------
(* The whole system *)

Init ==
    InitWith(<<ContentCard("a", "Mod", 0, 0, NoCount, FileA),
               ContentCard("b", "Client", 0, 0, NoCount, "")>>, <<>>,
             {FetchContentReq(s) : s \in Sessions} \cup {CheckAdminReq(s) : s \in Sessions}, {}, {})

AppNext(s) ==
    \/ FilterEffect(s)
    \/ \E category \in Categories : SetActiveCategory(s, category)
    \/ \E outcome \in Outcomes : FetchContentDone(s, outcome)
    \/ \E item \in Downloadable(s) : HandleDownload(s, item)
    \/ \E outcome \in Outcomes : DownloadUpdateDone(s, outcome)
    \/ \E outcome \in {"ok", "throw"} : DownloadFetchDone(s, outcome)
    \/ \E item \in Range(filteredContent[s]) : HandleSelectContent(s, item)
    \/ BackToList(s)
    \/ \E star \in 1..5 : HandleRate(s, star)
    \/ \E outcome \in Outcomes : HandleRateDone(s, outcome)
    \/ \E outcome \in Outcomes : FetchCommentsDone(s, outcome)
    \/ \E value \in Strs : SetCommentAuthor(s, value)
    \/ \E value \in Strs : SetCommentText(s, value)
    \/ PostComment(s)
    \/ \E wrote \in BOOLEAN : PostCommentServed(s, wrote)
    \/ \E outcome \in Outcomes \cup {"norow"} : PostCommentDone(s, outcome)
    \/ \E c \in Range(comments[s]) : DeleteComment(s, c.id)
    \/ \E outcome \in Outcomes : DeleteCommentDone(s, outcome)
    \/ \E outcome \in Outcomes : CheckAdminDone(s, outcome)
    \/ OpenAdminPanel(s)
    \/ CloseAdminPanel(s)
    \/ HandleLogin(s)
    \/ HandleLogout(s)
    \/ \E outcome \in {"ok", "throw"} : HandleLogoutDone(s, outcome)

AdminNext ==
    \/ \E outcome \in Outcomes : AdminFetchContentDone(outcome)
    \/ \E id \in Ids : ConfirmDelete(id)
    \/ CancelDelete
    \/ HandleDelete
    \/ \E outcome \in Outcomes : HandleDeleteDone(outcome)
    \/ \E outcome \in Outcomes : HandleDeleteFetchDone(outcome)

NoSubmitInFlight ==
    ~\E r \in pending : r.op \in {"submit.upload", "submit.insert", "submit.update"}

\* the form's steps with the given inputs and files; with `oneByOne` a
\* submit starts only when the one before has finished
FormNext(inputs, files, oneByOne) ==
    \/ \E input \in inputs : SetFormData(input[1], input[2])
    \/ \E selectedFile \in files \cup {NoAttachment} : HandleFileChange(selectedFile)
    \/ \E item \in Range(content) : HandleEdit(item)
    \/ CancelEdit
    \/ (oneByOne => NoSubmitInFlight) /\ HandleSubmit
    \/ \E outcome \in Outcomes : HandleSubmitUploaded(outcome)
    \/ \E outcome \in Outcomes : HandleSubmitDone(outcome)

ApiNext ==
    \/ \E id \in Ids : ApiDownload(id)
    \/ \E outcome \in Outcomes : ApiSelectDone(outcome)
    \/ \E outcome \in Outcomes : ApiUpdateDone(outcome)
    \/ \E outcome \in {"ok", "throw"} : ApiFetchDone(outcome)

Next == (\E s \in Sessions : AppNext(s)) \/ AdminNext \/ FormNext(FormInputs, Files, FALSE) \/ ApiNext

Spec == Init /\ [][Next]_vars

----------------------------------------------------------------------------
(* Browsing the list: category filter and downloads from the list view *)

\* stored rows a and b of any type; a has a file and b has none
BrowseTables ==
    {<<ContentCard("a", ta, 0, 0, NoCount, FileA), ContentCard("b", tb, db, 0, NoCount, "")>> :
        ta \in Types, tb \in Types, db \in 0..1}

InitBrowse == \E tbl \in BrowseTables : InitWith(tbl, <<>>, {FetchContentReq("s1")}, {}, {})

NextBrowse ==
    \/ FilterEffect("s1")
    \/ \E category \in Categories : SetActiveCategory("s1", category)
    \/ \E outcome \in Outcomes : FetchContentDone("s1", outcome)
    \/ \E item \in Downloadable("s1") : HandleDownload("s1", item)
    \/ \E outcome \in Outcomes : DownloadUpdateDone("s1", outcome)
    \/ \E outcome \in {"ok", "throw"} : DownloadFetchDone("s1", outcome)

SpecBrowse == InitBrowse /\ [][NextBrowse]_vars

----------------------------------------------------------------------------
(* One session: downloads one after the other, from the list and from the
   detail view *)

NoDownloadInFlight(s) ==
    ~\E r \in pending : r.sess = s /\ r.op \in {"download.update", "download.fetch"}

InitDetail ==
    \E da \in 0..1 :
        InitWith(<<ContentCard("a", "Mod", da, 0, NoCount, FileA),
                   ContentCard("b", "Client", 0, 0, NoCount, "")>>, <<>>,
                 {FetchContentReq("s1")}, {}, {})

NextDetail ==
    \/ FilterEffect("s1")
    \/ \E outcome \in Outcomes : FetchContentDone("s1", outcome)
    \/ \E item \in Range(filteredContent["s1"]) : HandleSelectContent("s1", item)
    \/ \E outcome \in Outcomes : FetchCommentsDone("s1", outcome)
    \/ BackToList("s1")
    \/ \E item \in Downloadable("s1") : NoDownloadInFlight("s1") /\ HandleDownload("s1", item)
    \/ \E outcome \in Outcomes : DownloadUpdateDone("s1", outcome)
    \/ \E outcome \in {"ok", "throw"} : DownloadFetchDone("s1", outcome)

SpecDetail == InitDetail /\ [][NextDetail]_vars

----------------------------------------------------------------------------
(* Two browser sessions and the download endpoint on one item *)

InitRace ==
    InitWith(<<ContentCard("a", "Mod", 0, 0, NoCount, FileA)>>, <<>>,
             {FetchContentReq("s1"), FetchContentReq("s2")}, {}, {})

NextRace ==
    \/ \E s \in Sessions :
          \/ FilterEffect(s)
          \/ \E outcome \in Outcomes : FetchContentDone(s, outcome)
          \/ \E item \in Downloadable(s) : HandleDownload(s, item)
          \/ \E outcome \in Outcomes : DownloadUpdateDone(s, outcome)
          \/ \E outcome \in {"ok", "throw"} : DownloadFetchDone(s, outcome)
    \/ ApiDownload("a")
    \/ \E outcome \in Outcomes : ApiSelectDone(outcome)
    \/ \E outcome \in Outcomes : ApiUpdateDone(outcome)
    \/ \E outcome \in {"ok", "throw"} : ApiFetchDone(outcome)

SpecRace == InitRace /\ [][NextRace]_vars

----------------------------------------------------------------------------
(* The download endpoint alone, serving requests at the same time *)

\* an id no row has
UnknownId == "z"

InitApi ==
    \E da \in 0..1 :
        InitWith(<<ContentCard("a", "Mod", da, 0, NoCount, FileA),
                   ContentCard("b", "Client", 0, 0, NoCount, "")>>, <<>>, {}, {}, {})

NextApi ==
    \/ \E id \in Ids \cup {UnknownId} : ApiDownload(id)
    \/ \E outcome \in Outcomes : ApiSelectDone(outcome)
    \/ \E outcome \in Outcomes : ApiUpdateDone(outcome)
    \/ \E outcome \in {"ok", "throw"} : ApiFetchDone(outcome)

SpecApi == InitApi /\ [][NextApi]_vars

----------------------------------------------------------------------------
(* One session rating an item *)

\* stored ratings, in tenths: whole and fractional ones, among them 4.1 and
\* 4.5, which one more rating of 4 takes to 4.05 and 4.25, and 4.5 over two
\* ratings, which a rating of 5 takes to 4.666...
StoredRatings == {0, 33, 41, 45, 50}

InitRate ==
    \E rating \in StoredRatings, count \in {NoCount, 0, 1, 2} :
        InitWith(<<ContentCard("a", "Mod", 0, rating, count, FileA)>>, <<>>,
                 {FetchContentReq("s1")}, {}, {})

NextRate ==
    \/ FilterEffect("s1")
    \/ \E outcome \in Outcomes : FetchContentDone("s1", outcome)
    \/ \E item \in Range(filteredContent["s1"]) : HandleSelectContent("s1", item)
    \/ \E outcome \in Outcomes : FetchCommentsDone("s1", outcome)
    \/ BackToList("s1")
    \/ \E star \in 1..5 : HandleRate("s1", star)
    \/ \E outcome \in Outcomes : HandleRateDone("s1", outcome)

SpecRate == InitRate /\ [][NextRate]_vars

----------------------------------------------------------------------------
(* Two browser sessions rating one item *)

NextRates ==
    \E s \in Sessions :
        \/ FilterEffect(s)
        \/ \E outcome \in Outcomes : FetchContentDone(s, outcome)
        \/ \E item \in Range(filteredContent[s]) : HandleSelectContent(s, item)
        \/ \E outcome \in Outcomes : FetchCommentsDone(s, outcome)
        \/ \E star \in {1, 5} : HandleRate(s, star)
        \/ \E outcome \in Outcomes : HandleRateDone(s, outcome)

SpecRates == InitRace /\ [][NextRates]_vars

----------------------------------------------------------------------------
(* One session writing comments on an item, one after the other *)

NoPostInFlight(s) ==
    ~\E r \in pending :
        r.sess = s /\ r.op \in {"postComment", "postComment.wrote", "postComment.failed"}

InitComment ==
    InitWith(<<ContentCard("a", "Mod", 0, 0, NoCount, FileA)>>, <<>>,
             {FetchContentReq("s1")}, {}, {})

NextComment ==
    \/ FilterEffect("s1")
    \/ \E outcome \in Outcomes : FetchContentDone("s1", outcome)
    \/ \E item \in Range(filteredContent["s1"]) : HandleSelectContent("s1", item)
    \/ \E outcome \in Outcomes : FetchCommentsDone("s1", outcome)
    \/ BackToList("s1")
    \/ \E value \in Strs : SetCommentAuthor("s1", value)
    \/ \E value \in Strs : SetCommentText("s1", value)
    \/ NoPostInFlight("s1") /\ PostComment("s1")
    \/ \E wrote \in BOOLEAN : PostCommentServed("s1", wrote)
    \/ \E outcome \in Outcomes \cup {"norow"} : PostCommentDone("s1", outcome)

SpecComment == InitComment /\ [][NextComment]_vars

----------------------------------------------------------------------------
(* One session going between two items and posting comments without waiting
   for the answers *)

InitPosts ==
    InitWith(<<ContentCard("a", "Mod", 0, 0, NoCount, FileA),
               ContentCard("b", "Client", 0, 0, NoCount, "")>>, <<>>,
             {FetchContentReq("s1")}, {}, {})

NextPosts ==
    \/ FilterEffect("s1")
    \/ \E outcome \in Outcomes : FetchContentDone("s1", outcome)
    \/ \E item \in Range(filteredContent["s1"]) : HandleSelectContent("s1", item)
    \/ \E outcome \in Outcomes : FetchCommentsDone("s1", outcome)
    \/ BackToList("s1")
    \/ SetCommentAuthor("s1", <<"x">>)
    \/ \E value \in {<<"x">>, <<"x", " ">>} : SetCommentText("s1", value)
    \/ PostComment("s1")
    \/ \E wrote \in BOOLEAN : PostCommentServed("s1", wrote)
    \/ \E outcome \in Outcomes \cup {"norow"} : PostCommentDone("s1", outcome)

SpecPosts == InitPosts /\ [][NextPosts]_vars

----------------------------------------------------------------------------
(* One session logging in and out and deleting comments; the browser may
   hold an auth session from an earlier visit *)

InitAuth ==
    \E kept \in SUBSET {"s1"} :
        InitWith(<<ContentCard("a", "Mod", 0, 0, NoCount, FileA)>>,
                 <<Comment(1, "a", <<"x">>, <<"x">>), Comment(2, "a", <<"x">>, <<"x">>)>>,
                 {FetchContentReq("s1"), CheckAdminReq("s1")}, {}, kept)

NextAuth ==
    \/ FilterEffect("s1")
    \/ \E outcome \in Outcomes : FetchContentDone("s1", outcome)
    \/ \E outcome \in Outcomes : CheckAdminDone("s1", outcome)
    \/ \E item \in Range(filteredContent["s1"]) : HandleSelectContent("s1", item)
    \/ \E outcome \in Outcomes : FetchCommentsDone("s1", outcome)
    \/ BackToList("s1")
    \/ \E c \in Range(comments["s1"]) : DeleteComment("s1", c.id)
    \/ \E outcome \in Outcomes : DeleteCommentDone("s1", outcome)
    \/ OpenAdminPanel("s1")
    \/ CloseAdminPanel("s1")
    \/ HandleLogin("s1")
    \/ HandleLogout("s1")
    \/ \E outcome \in {"ok", "throw"} : HandleLogoutDone("s1", outcome)

SpecAuth == InitAuth /\ [][NextAuth]_vars

----------------------------------------------------------------------------
(* The AdminPanel of a session that has logged in *)

InitAdmin ==
    InitWith(<<ContentCard("a", "Mod", 0, 0, NoCount, FileA),
               ContentCard("b", "Client", 0, 0, NoCount, "")>>, <<>>,
             {FetchContentReq("s1"), AdminFetchContentReq}, {"s1"}, {})

SpecAdmin == InitAdmin /\ [][AdminNext]_vars

----------------------------------------------------------------------------
(* The AdminPanel's form: creating and editing items, with and without a
   file, one submit at a time *)

\* the panel is mounted over a store that holds no item yet
InitForm ==
    InitWith(<<>>, <<>>,
             {AdminFetchContentReq}, {"s1"}, {})

NextForm ==
    \/ \E outcome \in Outcomes : AdminFetchContentDone(outcome)
    \/ FormNext({<<"title", "Test Pack">>, <<"file_size", "2MB">>}, {FileZip}, TRUE)

SpecForm == InitForm /\ [][NextForm]_vars

----------------------------------------------------------------------------
(* The store under creates, ratings and downloads: an administrator creating
   items without a file and a visitor rating and downloading what is listed,
   one handler at a time *)

\* no handler is suspended at an await (the mount effect's calls aside)
Quiet == \A r \in pending : r.tag = 0

InitStore ==
    \E rating \in {0, 45}, count \in {NoCount, 2} :
        InitWith(<<ContentCard("a", "Mod", 0, rating, count, FileA)>>, <<>>,
                 {FetchContentReq("s1")}, {}, {})

NextStore ==
    \/ FilterEffect("s1")
    \/ \E outcome \in Outcomes : FetchContentDone("s1", outcome)
    \/ \E item \in Range(filteredContent["s1"]) : Quiet /\ HandleSelectContent("s1", item)
    \/ \E outcome \in Outcomes : FetchCommentsDone("s1", outcome)
    \/ \E star \in {1, 5} : Quiet /\ HandleRate("s1", star)
    \/ \E outcome \in Outcomes : HandleRateDone("s1", outcome)
    \/ \E item \in Downloadable("s1") : Quiet /\ HandleDownload("s1", item)
    \/ \E outcome \in Outcomes : DownloadUpdateDone("s1", outcome)
    \/ \E outcome \in {"ok", "throw"} : DownloadFetchDone("s1", outcome)
    \/ \E input \in {<<"title", "Test Pack">>, <<"file_size", "2MB">>} :
          SetFormData(input[1], input[2])
    \/ Quiet /\ HandleSubmit
    \/ \E outcome \in Outcomes : HandleSubmitDone(outcome)

SpecStore == InitStore /\ [][NextStore]_vars

----------------------------------------------------------------------------
(* The AdminPanel's form: choosing files of every kind and creating items
   with them, one submit at a time *)

NextUpload ==
    \/ \E outcome \in Outcomes : AdminFetchContentDone(outcome)
    \/ \E input \in {<<"title", "Test Pack">>, <<"file_size", "2MB">>} :
          SetFormData(input[1], input[2])
    \/ \E selectedFile \in Files \cup {NoAttachment} : HandleFileChange(selectedFile)
    \/ NoSubmitInFlight /\ HandleSubmit
    \/ \E outcome \in Outcomes : HandleSubmitUploaded(outcome)
    \/ \E outcome \in Outcomes : HandleSubmitDone(outcome)

SpecUpload == InitForm /\ [][NextUpload]_vars

----------------------------------------------------------------------------
(* Claims *)

\* the type a category tag stands for
TypeOfCategory(category) ==
    CASE category = "resource-packs" -> "Resource Pack"
      [] category = "mods"           -> "Mod"
      [] category = "clients"        -> "Client"

\* C1: once the filter effect has run, filteredContent is featuredContent for
\* the category all and otherwise the sub-sequence of featuredContent of the
\* items whose type is the category's; a change of category and the effect
\* issue no remote call.
C1_FilterExact ==
    /\ \A s \in Sessions :
          ~effectPending[s] =>
              filteredContent[s] =
                  IF activeCategory[s] = "all" THEN featuredContent[s]
                  ELSE SelectSeq(featuredContent[s],
                          LAMBDA item : item.type = TypeOfCategory(activeCategory[s]))
    /\ ev.name \in {"setActiveCategory", "filterEffect"} => net = <<>>

\* the effect has just cut a fetched list of two down to one, the second item
C1_Witness ==
    /\ ev.name = "filterEffect"
    /\ activeCategory["s1"] = "mods"
    /\ Len(featuredContent["s1"]) = 2
    /\ filteredContent["s1"] = <<featuredContent["s1"][2]>>

\* C7: handleDownload on an item with no file reference issues no remote call,
\* saves and opens nothing and changes neither local state nor the store.
C7_NoFileBlocked ==
    [][(/\ ev'.name = "handleDownload"
        /\ \A item \in Downloadable(ev'.sess) : item.id = ev'.id => item.file_url = "")
       => /\ net' = <<>>
          /\ ui' \cap {"save", "open"} = {}
          /\ UNCHANGED <<remoteVars, appVars, adminVars, pending>>]_vars

\* handleDownload was called for b, which has no file, and only alerted
C7_Witness ==
    /\ ev.name = "handleDownload"
    /\ ev.id = "b"
    /\ \E item \in Range(filteredContent["s1"]) : item.id = "b" /\ item.file_url = ""
    /\ ui = {"alert: No file available for download."}

\* C4: a download whose counter update succeeds raises the stored counter of
\* its item by exactly one (so k downloads one after the other raise it by k).
C4_EachDownloadCounts ==
    [][(ev'.name = "handleDownload.updated" /\ ev'.res = "ok")
       => RowOf(contentTable', ev'.id).downloads = RowOf(contentTable, ev'.id).downloads + 1]_vars

\* C3: no step lowers the stored download counter of an item.
C3_CounterNeverDecreases ==
    [][\A i \in 1..Len(contentTable) :
          contentTable'[i].downloads >= contentTable[i].downloads]_vars

\* x tenths is a nearest tenth to the quotient num/den of tenths
NearestTenth(x, num, den) ==
    /\ 2 * (x * den - num) <= den
    /\ 2 * (num - x * den) <= den

\* C2: handleRate(id, S) on an item holding rating R over N ratings (absent
\* counts as 0) sends rating (R*N + S)/(N+1) rounded to one decimal and
\* ratings_count N+1; when the update succeeds the store, selectedContent
\* and both lists hold these two values; from N = 0 and S = 4 they are 4.0
\* and 1.
C2_RatingAverage ==
    [][/\ ev'.name = "handleRate" =>
            LET item == RateTarget(ev'.sess, ev'.id)
                N == IF item.ratings_count = NoCount THEN 0 ELSE item.ratings_count
                S == ev'.n
            IN  \E r \in pending' \ pending :
                    /\ r.op = "rate" /\ r.id = ev'.id
                    /\ r.n = N + 1
                    /\ NearestTenth(r.rating, item.rating * N + 10 * S, N + 1)
                    /\ (N = 0 /\ S = 4) => (r.rating = 40 /\ r.n = 1)
       /\ (ev'.name = "handleRate.done" /\ ev'.res = "ok") =>
            \E r \in pending \ pending' :
                LET Holds(item) == item.rating = r.rating /\ item.ratings_count = r.n
                    s == ev'.sess
                IN  /\ r.op = "rate"
                    /\ Holds(RowOf(contentTable', r.id))
                    /\ Holds(selectedContent'[s])
                    /\ \A item \in Range(featuredContent'[s]) \cup Range(filteredContent'[s]) :
                          item.id = r.id => Holds(item)]_vars

\* an item without ratings was rated 4 stars and now holds 4.0 over 1 rating
\* in the store, in selectedContent and in the lists
C2_Witness ==
    /\ ev.name = "handleRate.done" /\ ev.res = "ok"
    /\ RowOf(contentTable, "a").rating = 40
    /\ RowOf(contentTable, "a").ratings_count = 1
    /\ selectedContent["s1"].rating = 40
    /\ \E item \in Range(filteredContent["s1"]) : item.rating = 40 /\ item.ratings_count = 1

\* a string that is empty after trimming
Blank(str) == \A i \in 1..Len(str) : str[i] = " "

\* C5: postComment with an author or a text that is empty after trimming
\* issues no remote call and leaves the comment list, the form fields and
\* the stored comments as they are.
C5_EmptyCommentRejected ==
    [][(/\ ev'.name = "postComment"
        /\ Blank(commentAuthor[ev'.sess]) \/ Blank(commentText[ev'.sess]))
       => /\ net' = <<>>
          /\ UNCHANGED <<comments, commentAuthor, commentText, commentTable, pending>>]_vars

\* postComment was called with a name of one space and a text, and only alerted
C5_Witness ==
    /\ ev.name = "postComment"
    /\ commentAuthor["s1"] = <<" ">>
    /\ commentText["s1"] = <<"x">>
    /\ net = <<>>
    /\ ui = {"alert: Please enter your name and comment"}

\* C6: deleteComment called while isAdmin is false issues no remote call and
\* leaves the comment list as it is; a remote comment delete is issued only
\* by a session that is admin and signed in, so none is issued between a
\* completed sign-out and the next login.
C6_DeleteNeedsAdmin ==
    [][/\ (ev'.name = "deleteComment" /\ ~isAdmin[ev'.sess])
          => /\ net' = <<>>
             /\ UNCHANGED <<comments, commentTable, pending>>
       /\ (\E i \in 1..Len(net') : net'[i] = "comments.delete")
          => isAdmin[ev'.sess] /\ authSession[ev'.sess]
       /\ \A s \in Sessions :
             (~authSession[s] /\ ~isAdmin[s] /\ ev'.name # "handleLogin") => ~isAdmin'[s]
       /\ (ev'.name = "handleLogout.done" /\ ev'.res = "ok")
          => ~isAdmin'[ev'.sess] /\ ~authSession'[ev'.sess]]_vars

\* deleteComment was called for a listed comment by a session that is not
\* admin, and only alerted
C6_Witness ==
    /\ ev.name = "deleteComment"
    /\ ~isAdmin["s1"]
    /\ Len(comments["s1"]) = 2
    /\ net = <<>>
    /\ ui = {"alert: Only administrators can delete comments."}

HandleDeleteFinished ==
    \/ ev.name = "handleDelete.deleted" /\ ev.res \in {"error", "throw"}
    \/ ev.name = "handleDelete.done"

Listed(id) == \E item \in Range(content) : item.id = id

\* C8: an item selected for deletion and not confirmed stays in the list;
\* when handleDelete has finished, the item is not in the list, whatever the
\* remote calls answered.
C8_DeletedItemGone ==
    /\ ev.name = "confirmDelete" => Listed(ev.id)
    /\ HandleDeleteFinished => ~Listed(ev.id)

\* C9: when the remote delete has failed (error returned or exception), the
\* error state is a message and the item is out of the list.
C9_DeleteFailureReported ==
    (ev.name = "handleDelete.deleted" /\ ev.res \in {"error", "throw"})
        => adminError # "" /\ ~Listed(ev.id)

\* C10: a remote content delete is issued only from the open confirmation
\* dialog, for the target selected there; Cancel clears the target and closes
\* the dialog, issues no remote call and leaves list and store as they are.
C10_DeleteNeedsConfirmation ==
    [][/\ (\E i \in 1..Len(net') : net'[i] = "content.delete")
          => /\ showDeleteConfirm
             /\ deletingId # ""
             /\ ev'.id = deletingId
       /\ ev'.name = "cancelDelete"
          => /\ deletingId' = "" /\ ~showDeleteConfirm'
             /\ net' = <<>>
             /\ UNCHANGED <<content, contentTable, pending>>]_vars

\* the dialog for a was cancelled: no target, dialog closed, a still listed
\* and stored
C10_Witness ==
    /\ ev.name = "cancelDelete" /\ ev.id = "a"
    /\ deletingId = "" /\ ~showDeleteConfirm
    /\ Listed("a") /\ HasRow(contentTable, "a")

\* C12: the administration panel is rendered only while isAdmin is true: a
\* session with showAdminPanel true and isAdmin false is shown the login
\* prompt, the panel's own controls (Logout, the header that closes it) are
\* used only by a session that is admin, and handleLogin sets both isAdmin
\* and showAdminPanel.
C12_PanelGated ==
    /\ [](\A s \in Sessions :
            /\ (showAdminPanel[s] /\ ~isAdmin[s]) => View(s) = "login"
            /\ View(s) = "admin" => isAdmin[s])
    /\ [][/\ ev'.name = "handleLogin"
               => isAdmin'[ev'.sess] /\ showAdminPanel'[ev'.sess]
          /\ ev'.name \in {"handleLogout", "closeAdminPanel"}
               => isAdmin[ev'.sess]]_vars

\* a session that was shown the login prompt has logged in and sees the panel
C12_Witness ==
    /\ ev.name = "handleLogin"
    /\ isAdmin["s1"] /\ showAdminPanel["s1"]
    /\ View("s1") = "admin"

\* C13: when signOut has resolved, handleLogout leaves isAdmin and
\* showAdminPanel both false; when it has thrown, both are as they were; the
\* step that starts handleLogout changes neither.
C13_LogoutClearsBoth ==
    [][/\ (ev'.name = "handleLogout.done" /\ ev'.res = "ok")
            => ~isAdmin'[ev'.sess] /\ ~showAdminPanel'[ev'.sess]
       /\ (ev'.name = "handleLogout.done" /\ ev'.res = "throw")
            => UNCHANGED <<isAdmin, showAdminPanel>>
       /\ ev'.name = "handleLogout"
            => UNCHANGED <<isAdmin, showAdminPanel>>]_vars

\* a logout has completed and the session is back on the public view
C13_Witness ==
    /\ ev.name = "handleLogout.done" /\ ev.res = "ok"
    /\ ~isAdmin["s1"] /\ ~showAdminPanel["s1"]
    /\ ~authSession["s1"]

\* C17: a download of an item with a file issues the counter update; whatever
\* its outcome the file fetch is issued next; and the handler ends with a
\* forced save and no window opened when the fetch succeeded, with the file
\* reference opened and nothing saved when it failed.
C17_DownloadProceeds ==
    [][/\ (/\ ev'.name = "handleDownload"
           /\ \E item \in Downloadable(ev'.sess) : item.id = ev'.id /\ item.file_url # "")
            => net' = <<"content.update">>
       /\ ev'.name = "handleDownload.updated"
            => /\ net' = <<"fetch">>
               /\ \E r \in pending' :
                     r.op = "download.fetch" /\ r.sess = ev'.sess /\ r.id = ev'.id
       /\ ev'.name = "handleDownload.done"
            => /\ ev'.res = "ok" => ("save" \in ui' /\ "open" \notin ui')
               /\ ev'.res # "ok" => ("open" \in ui' /\ "save" \notin ui')]_vars

\* the counter update of a download threw and the file fetch was issued
C17_Witness ==
    /\ ev.name = "handleDownload.updated"
    /\ ev.res = "throw"
    /\ net = <<"fetch">>
    /\ \E r \in pending : r.op = "download.fetch" /\ r.id = ev.id

\* C19: the endpoint acts only on an item that exists and has a file: a
\* request for an id no row has is answered 404 (500 when the query itself
\* throws) and changes no counter; a request for an item whose file_url is
\* empty never changes its counter and is never answered with a file.
C19_EndpointNeedsFile ==
    [][ev'.sess = "api" =>
          /\ ~HasRow(contentTable, ev'.id)
               => /\ contentTable' = contentTable
                  /\ ev'.name = "api.download.selected"
                       => ui' = IF ev'.res = "throw" THEN {"500"} ELSE {"404"}
          /\ (HasRow(contentTable, ev'.id) /\ RowOf(contentTable, ev'.id).file_url = "")
               => /\ contentTable' = contentTable
                  /\ "200 attachment" \notin ui']_vars

\* C20: an endpoint request whose counter update succeeds raises the stored
\* counter of its item by exactly one, whatever other requests do between
\* its read and its write (so n requests raise it by n).
C20_EndpointCountsEach ==
    [][(ev'.name = "api.download.updated" /\ ev'.res = "ok")
       => RowOf(contentTable', ev'.id).downloads = RowOf(contentTable, ev'.id).downloads + 1]_vars

IsWrite(r) == r.op \in {"submit.insert", "submit.update"}

\* C11: handleSubmit with a file attached first issues the upload and nothing
\* else; the insert or update is issued only by the step in which the upload
\* is answered without error, once the object is stored, and carries the
\* object's public URL and the file's size label; when the upload fails no
\* insert or update is issued, the error is set, and the form, the edit
\* target, the attached file, the list and the store are as they were.
C11_WriteAfterUpload ==
    [][/\ (ev'.name = "handleSubmit" /\ file # NoAttachment)
            => /\ net' = <<"storage.upload">>
               /\ ~\E w \in pending' : IsWrite(w)
       /\ \A w \in pending' \ pending :
             (IsWrite(w) /\ w.file # NoAttachment)
                => ev'.name = "handleSubmit.uploaded" /\ ev'.res = "ok"
       /\ (ev'.name = "handleSubmit.uploaded" /\ ev'.res = "ok")
            => \E r \in pending \ pending' : \E w \in pending' \ pending :
                  /\ r.op = "submit.upload"
                  /\ \E o \in storage' : o.path = r.path /\ o.size = r.file.size
                  /\ w.op = IF r.id # "" THEN "submit.update" ELSE "submit.insert"
                  /\ w.id = r.id
                  /\ net' = <<IF r.id # "" THEN "content.update" ELSE "content.insert">>
                  /\ w.form.file_url = PublicUrl(r.path)
                  /\ w.form.file_size = SizeLabel(r.file.size)
                  /\ w.form.title = r.form.title
       /\ (ev'.name = "handleSubmit.uploaded" /\ ev'.res # "ok")
            => /\ net' = <<>>
               /\ ~\E w \in pending' : IsWrite(w)
               /\ adminError' # ""
               /\ UNCHANGED <<formData, isEditing, file, content, contentTable, storage>>]_vars

\* the upload of a create with the 1MB archive attached has succeeded and
\* the insert in flight carries its URL and the label 1.00MB
C11_Witness ==
    /\ ev.name = "handleSubmit.uploaded" /\ ev.res = "ok"
    /\ \E w \in pending :
          /\ w.op = "submit.insert"
          /\ w.file = FileZip
          /\ w.form.file_url = PublicUrl(w.path)
          /\ w.form.file_size = "1.00MB"

\* C14: choosing a file larger than 50MB sets the error, issues no call and
\* leaves the attached file as it was; choosing a file of at most 50MB (or
\* none) makes it the attached file and clears the error; so neither the
\* attached file, nor a file being uploaded, nor a stored object is ever
\* larger than 50MB.
C14_OversizedRejected ==
    [][/\ (ev'.name = "handleFileChange" /\ ev'.n > 50 * 1024 * 1024)
            => /\ adminError' = FileTooLargeMessage
               /\ net' = <<>>
               /\ UNCHANGED <<file, pending, storage>>
       /\ (ev'.name = "handleFileChange" /\ ev'.n <= 50 * 1024 * 1024)
            => /\ adminError' = ""
               /\ file'.size = ev'.n
               /\ Join(file'.name) = ev'.id
       /\ file'.size <= 50 * 1024 * 1024
       /\ \A r \in pending' : r.file.size <= 50 * 1024 * 1024
       /\ \A o \in storage' : o.size <= 50 * 1024 * 1024]_vars

\* with the 1MB archive attached, a file of 50MB and one byte was chosen:
\* the error shows and the archive is still the attached file
C14_Witness ==
    /\ ev.name = "handleFileChange"
    /\ ev.n = 50 * 1024 * 1024 + 1
    /\ adminError = FileTooLargeMessage
    /\ file = FileZip

SpellsHtml(name, i) ==
    /\ Len(name) = i + 3
    /\ name[i] \in {"h", "H"} /\ name[i + 1] \in {"t", "T"}
    /\ name[i + 2] \in {"m", "M"} /\ name[i + 3] \in {"l", "L"}

\* the name ends in the extension html: a dot, then html in any letter case
HasHtmlExtension(name) == Len(name) >= 5 /\ name[Len(name) - 4] = "." /\ SpellsHtml(name, Len(name) - 3)

\* C16, as stated: an upload is sent as application/octet-stream when the
\* file's declared type is text/html or its name ends in the extension html
\* in any letter case, and with the file's declared type otherwise.
C16_HtmlSentAsBinary ==
    [][\A r \in pending' \ pending :
          r.op = "submit.upload"
             => r.ctype = IF r.file.type = "text/html" \/ HasHtmlExtension(r.file.name)
                          THEN "application/octet-stream"
                          ELSE r.file.type]_vars

\* C16, amended: an upload is sent as application/octet-stream when the
\* file's declared type is text/html, or its name ends in the extension html,
\* or its whole name is html, in any letter case, and with the file's
\* declared type otherwise; no stored object has content type text/html.
C16_HtmlOrNamedHtmlSentAsBinary ==
    [][/\ \A r \in pending' \ pending :
             r.op = "submit.upload"
                => r.ctype = IF \/ r.file.type = "text/html"
                                \/ HasHtmlExtension(r.file.name)
                                \/ SpellsHtml(r.file.name, 1)
                             THEN "application/octet-stream"
                             ELSE r.file.type
       /\ \A o \in storage' : o.contentType # "text/html"]_vars

\* a.HTML, of no declared type, is being uploaded as application/octet-stream
C16_Witness ==
    \E r \in pending :
        /\ r.op = "submit.upload"
        /\ r.file = FileUpperHtml
        /\ r.ctype = "application/octet-stream"

\* C18: every stored row has a rating between 0 and 5 (held in tenths, so
\* with one decimal at most), a ratings_count that is absent or not
\* negative, and a download counter that is not negative.
C18_StoredRecordsInRange ==
    \A i \in 1..Len(contentTable) :
        /\ contentTable[i].rating \in 0..50
        /\ contentTable[i].ratings_count = NoCount \/ contentTable[i].ratings_count >= 0
        /\ contentTable[i].downloads >= 0

\* a row that was created has been rated once with 5 stars, and the row of
\* 4.5 over two ratings has been rated and downloaded
C18_Witness ==
    /\ Len(contentTable) = 2
    /\ contentTable[2].author = "admin"
    /\ contentTable[2].downloads = 0 /\ contentTable[2].rating = 0
    /\ contentTable[1].ratings_count = 3 /\ contentTable[1].rating \in {33, 47}
    /\ contentTable[1].downloads >= 1

----------------------------------------------------------------------------
(* postComment: what the answer of the insert does to the local list *)

\* the ids of a list of comments do not go up: the order of descending
\* creation time, ids being given in creation order
NewestFirst(list) == \A i, j \in 1..Len(list) : i < j => list[i].id >= list[j].id

\* C21: when the insert of postComment is answered with the new row, the
\* session's comment list becomes that row followed by the list it had, stays
\* ordered newest first if it was, and the text field is emptied; when it is
\* answered without a row, the comments of that content id are fetched again
\* and the list is left as it is; when it fails, the list is left as it is.
C21_CommentPrepended ==
    [][ev'.name = "postComment.done" =>
          LET s == ev'.sess
          IN  /\ ev'.res = "ok" =>
                    /\ HasRow(commentTable, ev'.n)
                    /\ RowOf(commentTable, ev'.n).content_id = ev'.id
                    /\ comments'[s] = <<RowOf(commentTable, ev'.n)>> \o comments[s]
                    /\ NewestFirst(comments[s]) => NewestFirst(comments'[s])
                    /\ commentText'[s] = <<>>
                    /\ net' = <<>>
              /\ ev'.res = "norow" =>
                    /\ HasRow(commentTable, ev'.n)
                    /\ net' = <<"comments.select">>
                    /\ \E r \in pending' \ pending :
                          r.op = "fetchComments" /\ r.sess = s /\ r.id = ev'.id
                    /\ comments'[s] = comments[s]
              /\ ev'.res \in {"error", "throw"} =>
                    /\ comments'[s] = comments[s]
                    /\ net' = <<>>]_vars

----------------------------------------------------------------------------
(* The comments shown with an item *)

\* C22: while a session shows the detail view of an item, every comment of
\* its local list is a comment on that item.
C22_CommentsOfShownItem ==
    \A s \in Sessions :
        View(s) = "detail" =>
            \A i \in 1..Len(comments[s]) :
                comments[s][i].content_id = selectedContent[s].id

----------------------------------------------------------------------------
(* What a rating leaves alone *)

\* item `new` is item `old` but for its rating and ratings_count
SameButRating(old, new) ==
    [new EXCEPT !.rating = old.rating, !.ratings_count = old.ratings_count] = old

\* the list `new` is the list `old` but for the rating and ratings_count of
\* the item `id`
OnlyRatingChanged(old, new, id) ==
    /\ Len(new) = Len(old)
    /\ \A i \in 1..Len(old) :
          IF old[i].id = id THEN SameButRating(old[i], new[i]) ELSE new[i] = old[i]

\* C23: a rating that was stored changes, in featuredContent and in
\* filteredContent of the session, the rating and ratings_count of the rated
\* item and nothing else: its download count is the one shown before, and
\* the other items are as they were.
C23_RatingKeepsDownloads ==
    [][(ev'.name = "handleRate.done" /\ ev'.res = "ok") =>
          /\ OnlyRatingChanged(featuredContent[ev'.sess], featuredContent'[ev'.sess], ev'.id)
          /\ OnlyRatingChanged(filteredContent[ev'.sess], filteredContent'[ev'.sess], ev'.id)]_vars

----------------------------------------------------------------------------
(* The form after a file was refused *)

\* C24: once the choice of a file above the limit was refused the form has
\* no attached file, and a submit that follows it uploads nothing.
C24_RejectionDetaches ==
    [][/\ (ev'.name = "handleFileChange" /\ ev'.n > MaxFileSize) => file' = NoAttachment
       /\ (/\ ev.name = "handleFileChange" /\ ev.n > MaxFileSize
           /\ ev'.name = "handleSubmit") => net' # <<"storage.upload">>]_vars

----------------------------------------------------------------------------
(* Ratings counted *)

\* C25: every rating that was stored raises the stored ratings_count of the
\* item by one, so that k of them, from one session or from several and in
\* any interleaving, leave it at its first value plus k.
C25_EachRatingCounts ==
    [][(ev'.name = "handleRate.done" /\ ev'.res = "ok") =>
          OrZero(RowOf(contentTable', ev'.id).ratings_count)
              = OrZero(RowOf(contentTable, ev'.id).ratings_count) + 1]_vars

====
